---- MODULE Spec2Model ----
(***************************************************************************)
(* A model of the Imgfans JavaScript client (src/src/index.ts):            *)
(* ImgfansError and its error mapping, the ImgfansClient constructor,      *)
(* upload with its input normaliser (preprocessInput) and transport        *)
(* (performUpload), and the response accessors.                            *)
(*                                                                         *)
(* JavaScript strings that the code inspects character by character (the   *)
(* upload input, file names) are sequences of one-character strings.       *)
(* Strings the code only passes around (messages, tokens) are TLA+         *)
(* strings.  An optional value (T | undefined) is a set with at most one   *)
(* element: {} is undefined.                                               *)
(***************************************************************************)
EXTENDS Integers, Sequences, FiniteSets

VARIABLES
    client,      \* the ImgfansClient instance: construction state and axios config
    requests,    \* the HTTP requests issued so far by the pending upload call
    pc,          \* position of the caller: idle, fetching, posting, settled, accessed
    input,       \* the input argument of the pending upload call
    filename,    \* the filename argument of the pending upload call (optional)
    fileExists,  \* what existsSync answers for the input of the pending call
    fsChecked,   \* whether the call consulted existsSync
    failure,     \* the error the HTTP library raised in the pending call, if any
    form,        \* the parts appended to the multipart FormData
    outcome,     \* how the promise returned by upload settled
    accessor,    \* the last accessor call: name and argument
    accResult,   \* what the last accessor call returned or threw
    payload,     \* base64 text handed to Buffer.from(..., 'base64')
    bytes,       \* the bytes decoded from payload
    encoded      \* bytes rendered back with toString('base64')

vars == <<client, requests, pc, input, filename, fileExists, fsChecked, failure, form,
          outcome, accessor, accResult, payload, bytes, encoded>>

clientVars == <<client, requests, pc, input, filename, fileExists, fsChecked, failure, form,
                outcome, accessor, accResult>>

(***************************************************************************)
(* Bounds of the model.                                                    *)
(***************************************************************************)
\* longest base64 payload, in characters, enumerated for the codec
MaxPayloadLen == 4
\* most vocabulary segments concatenated into one string input
MaxParts == 3

(***************************************************************************)
(* Strings as character sequences.                                         *)
(***************************************************************************)
RECURSIVE Flatten(_)
Flatten(ss) == IF ss = <<>> THEN <<>> ELSE Head(ss) \o Flatten(Tail(ss))

\* String.prototype.startsWith
StartsWith(s, p) == Len(s) >= Len(p) /\ SubSeq(s, 1, Len(p)) = p

\* the substring of s from position i (1-based) to the end
From(s, i) == SubSeq(s, i, Len(s))

\* does p occur in s at position i
OccursAt(s, p, i) == i >= 1 /\ i + Len(p) - 1 <= Len(s) /\ SubSeq(s, i, i + Len(p) - 1) = p

Chars(s) == {s[i] : i \in 1..Len(s)}

HTTP == <<"h","t","t","p",":","/","/">>
HTTPS == <<"h","t","t","p","s",":","/","/">>
DATA == <<"d","a","t","a",":">>
DATA_IMAGE == <<"d","a","t","a",":","i","m","a","g","e","/">>
BASE64_MARK == <<";","b","a","s","e","6","4",",">>
IMAGE_PNG == <<"i","m","a","g","e",".","p","n","g">>

\* characters the regular expression's '.' does not match
LineTerminators == {"\n", "\r"}

(***************************************************************************)
(* Buffer.from(text, 'base64') and buffer.toString('base64') of Node.js.   *)
(***************************************************************************)
B64Alphabet ==
    <<"A","B","C","D","E","F","G","H","I","J","K","L","M","N","O","P",
      "Q","R","S","T","U","V","W","X","Y","Z","a","b","c","d","e","f",
      "g","h","i","j","k","l","m","n","o","p","q","r","s","t","u","v",
      "w","x","y","z","0","1","2","3","4","5","6","7","8","9","+","/">>

\* value of a base64 digit; the URL-safe digits are accepted as well;
\* 64 stands for a character that is no digit
Unbase64(c) ==
    IF c = "-" THEN 62
    ELSE IF c = "_" THEN 63
    ELSE IF \E i \in 1..Len(B64Alphabet) : B64Alphabet[i] = c
         THEN (CHOOSE i \in 1..Len(B64Alphabet) : B64Alphabet[i] = c) - 1
         ELSE Len(B64Alphabet)

\* the digits decoded: decoding stops at the first '=', and any other
\* character that is no digit is skipped
RECURSIVE Sextets(_)
Sextets(s) ==
    IF s = <<>> \/ Head(s) = "=" THEN <<>>
    ELSE IF Unbase64(Head(s)) < Len(B64Alphabet)
         THEN <<Unbase64(Head(s))>> \o Sextets(Tail(s))
         ELSE Sextets(Tail(s))

\* a decoder that drops a trailing group of fewer than four digits
RECURSIVE GroupsToBytesWholeOnly(_)
GroupsToBytesWholeOnly(d) ==
    IF Len(d) < 4 THEN <<>>
    ELSE <<d[1] * 4 + d[2] \div 16, (d[2] % 16) * 16 + d[3] \div 4, (d[3] % 4) * 64 + d[4]>>
         \o GroupsToBytesWholeOnly(SubSeq(d, 5, Len(d)))

\* groups of four digits give three bytes; a trailing group of three gives
\* two bytes, of two gives one byte, and a single trailing digit is dropped
RECURSIVE GroupsToBytes(_)
GroupsToBytes(d) ==
    IF Len(d) < 2 THEN <<>>
    ELSE IF Len(d) = 2 THEN <<d[1] * 4 + d[2] \div 16>>
    ELSE IF Len(d) = 3 THEN <<d[1] * 4 + d[2] \div 16, (d[2] % 16) * 16 + d[3] \div 4>>
    ELSE <<d[1] * 4 + d[2] \div 16, (d[2] % 16) * 16 + d[3] \div 4, (d[3] % 4) * 64 + d[4]>>
         \o GroupsToBytes(SubSeq(d, 5, Len(d)))

Base64Decode(s) == GroupsToBytes(Sextets(s))

RECURSIVE Base64Encode(_)
Base64Encode(b) ==
    IF b = <<>> THEN <<>>
    ELSE IF Len(b) = 1
         THEN <<B64Alphabet[b[1] \div 4 + 1], B64Alphabet[(b[1] % 4) * 16 + 1], "=", "=">>
    ELSE IF Len(b) = 2
         THEN <<B64Alphabet[b[1] \div 4 + 1],
                B64Alphabet[(b[1] % 4) * 16 + b[2] \div 16 + 1],
                B64Alphabet[(b[2] % 16) * 4 + 1], "=">>
    ELSE <<B64Alphabet[b[1] \div 4 + 1],
           B64Alphabet[(b[1] % 4) * 16 + b[2] \div 16 + 1],
           B64Alphabet[(b[2] % 16) * 4 + b[3] \div 64 + 1],
           B64Alphabet[(b[3] % 64) + 1]>>
         \o Base64Encode(SubSeq(b, 4, Len(b)))

(***************************************************************************)
(* JavaScript values that reach the message of an error.  A value is       *)
(* [t, s]: its type and, for a string, its text.  An empty array is the    *)
(* one non-string a JSON payload's "message" takes here: it is truthy and  *)
(* its string conversion is the empty string.                              *)
(***************************************************************************)
Undefined == [t |-> "undefined", s |-> ""]
Str(x) == [t |-> "string", s |-> x]
EmptyArray == [t |-> "array", s |-> ""]

\* ToBoolean
Truthy(v) == v.t = "array" \/ (v.t = "string" /\ v.s # "")

\* ToString, as the Error constructor applies it to its message
ToString(v) == IF v.t = "undefined" THEN "undefined" ELSE v.s

\* a || b
Or(a, b) == IF Truthy(a) THEN a ELSE b

(***************************************************************************)
(* Errors.  An error is the sequence of its layers, outermost first: the   *)
(* tail of the sequence is its cause.  A layer of name "AxiosError" is an  *)
(* error of the HTTP library: statusCode is its response?.status, response *)
(* its response?.data, code its code.                                      *)
(***************************************************************************)
\* new ImgfansError(message, statusCode, response, cause)
ImgfansError(message, statusCode, response, cause) ==
    <<[name |-> "ImgfansError", message |-> ToString(message),
       statusCode |-> statusCode, response |-> response, code |-> ""]>> \o cause

MSG_TOO_LARGE == "The image file is too large. Please try a smaller file."
MSG_UNSUPPORTED_TYPE == "The file type is not supported. Please upload a valid image file."
MSG_BAD_TOKEN == "Invalid or missing API token. Please check your credentials."
MSG_NO_CONNECTION == "Unable to connect to Imgfans server. Please check your internet connection."
MSG_UNKNOWN == "Upload failed for unknown reason"
MSG_UNEXPECTED == "An unexpected error occurred"
MSG_TOKEN_REQUIRED == "API token is required for initialization"
MSG_INVALID_INPUT == "Invalid input: must be a valid URL, file path, or base64 string"
MSG_UNSUPPORTED_INPUT == "Unsupported input type"
MSG_INVALID_RESPONSE == "Invalid response format from server"

\* axios.isAxiosError
isAxiosError(error) == Head(error).name = "AxiosError"

\* error.response?.data?.message
DataMessage(error) ==
    IF Head(error).response = {} THEN Undefined
    ELSE (CHOOSE d \in Head(error).response : TRUE).message

getReadableErrorMessage(error) ==
    IF Head(error).statusCode = {413} THEN Str(MSG_TOO_LARGE)
    ELSE IF Head(error).statusCode = {415} THEN Str(MSG_UNSUPPORTED_TYPE)
    ELSE IF Head(error).statusCode = {401} THEN Str(MSG_BAD_TOKEN)
    ELSE IF Head(error).code = "ECONNREFUSED" THEN Str(MSG_NO_CONNECTION)
    ELSE Or(DataMessage(error), Or(Str(Head(error).message), Str(MSG_UNKNOWN)))

fromError(error) ==
    IF isAxiosError(error)
    THEN ImgfansError(getReadableErrorMessage(error), Head(error).statusCode,
                      Head(error).response, error)
    ELSE ImgfansError(Or(Str(Head(error).message), Str(MSG_UNEXPECTED)), {}, {}, error)

(***************************************************************************)
(* The input normaliser.                                                   *)
(***************************************************************************)
\* a value handed to upload, or a byte source: its type, its text when it
\* is a string or a stream opened on a path, its bytes when it holds bytes
StringInput(chars) == [t |-> "string", s |-> chars, bytes |-> <<>>]
BufferOf(b) == [t |-> "buffer", s |-> <<>>, bytes |-> b]
BlobOf(b) == [t |-> "blob", s |-> <<>>, bytes |-> b]
ReadableOf(b) == [t |-> "stream", s |-> <<>>, bytes |-> b]
createReadStream(path) == [t |-> "stream", s |-> path, bytes |-> <<>>]
NumberInput == [t |-> "number", s |-> <<>>, bytes |-> <<>>]
NoValue == [t |-> "none", s |-> <<>>, bytes |-> <<>>]

\* positions where ";base64," splits s into a non-empty <mime> after "data:"
\* and a non-empty <payload>
DataUriSplits(s) ==
    {i \in 1..Len(s) : /\ OccursAt(s, BASE64_MARK, i)
                       /\ i > Len(DATA) + 1
                       /\ i + Len(BASE64_MARK) <= Len(s)}

\* input.match(/^data:(.+);base64,(.+)$/) is not null
DataUriMatches(s) ==
    /\ StartsWith(s, DATA)
    /\ Chars(From(s, Len(DATA) + 1)) \cap LineTerminators = {}
    /\ DataUriSplits(s) # {}

\* matches[2]: the first group is greedy, so the split is the last one
DataUriPayload(s) ==
    LET i == CHOOSE k \in DataUriSplits(s) : \A j \in DataUriSplits(s) : j <= k
    IN  From(s, i + Len(BASE64_MARK))

\* path.basename: trailing separators are dropped, then what follows the
\* last separator is kept
RECURSIVE basename(_)
basename(path) ==
    IF path = <<>> THEN <<>>
    ELSE IF path[Len(path)] = "/" THEN basename(SubSeq(path, 1, Len(path) - 1))
    ELSE LET slashes == {i \in 1..Len(path) : path[i] = "/"}
         IN  IF slashes = {} THEN path
             ELSE From(path, (CHOOSE k \in slashes : \A j \in slashes : j <= k) + 1)

\* first position at or after from where s has a character of set, else Len(s)+1
FirstOf(s, set, from) ==
    LET hits == {i \in from..Len(s) : s[i] \in set}
    IN  IF hits = {} THEN Len(s) + 1 ELSE CHOOSE k \in hits : \A j \in hits : k <= j

SchemeLen(url) == IF StartsWith(url, HTTPS) THEN Len(HTTPS) ELSE Len(HTTP)

\* the host of an http(s) URL: what follows "//" up to the path, query or fragment
URLHost(url) == SubSeq(url, SchemeLen(url) + 1, FirstOf(url, {"/", "?", "#"}, SchemeLen(url) + 1) - 1)

\* new URL(input).pathname of an http(s) URL: from the first "/" after the
\* host up to the query or fragment, and "/" when that is empty
URLpathname(url) ==
    LET a == FirstOf(url, {"/", "?", "#"}, SchemeLen(url) + 1)
        b == FirstOf(url, {"?", "#"}, SchemeLen(url) + 1)
    IN  IF a >= b THEN <<"/">> ELSE SubSeq(url, a, b - 1)

\* customFilename || fallback
OrName(customFilename, fallback) ==
    IF customFilename = {} \/ customFilename = {<<>>} THEN fallback
    ELSE CHOOSE n \in customFilename : TRUE

Returns(file, name, checked) ==
    [state |-> "return", processedFile |-> file, detectedFilename |-> name,
     error |-> <<>>, fsChecked |-> checked]
Throws(error, checked) ==
    [state |-> "throw", processedFile |-> NoValue, detectedFilename |-> <<>>,
     error |-> error, fsChecked |-> checked]
Awaits ==
    [state |-> "await", processedFile |-> NoValue, detectedFilename |-> <<>>,
     error |-> <<>>, fsChecked |-> FALSE]

\* a normaliser that looks for a local file before it looks for base64
preprocessInputFileBeforeBase64(in, customFilename, exists) ==
    IF in.t = "string"
    THEN IF StartsWith(in.s, HTTP) \/ StartsWith(in.s, HTTPS)
         THEN Awaits
         ELSE IF exists
         THEN Returns(createReadStream(in.s), OrName(customFilename, basename(in.s)), TRUE)
         ELSE IF StartsWith(in.s, DATA_IMAGE) /\ DataUriMatches(in.s)
         THEN Returns(BufferOf(Base64Decode(DataUriPayload(in.s))),
                      OrName(customFilename, IMAGE_PNG), TRUE)
         ELSE Throws(fromError(ImgfansError(Str(MSG_INVALID_INPUT), {}, {}, <<>>)), TRUE)
    ELSE IF in.t \in {"buffer", "blob", "stream"}
         THEN Returns(in, OrName(customFilename, IMAGE_PNG), FALSE)
         ELSE Throws(fromError(ImgfansError(Str(MSG_UNSUPPORTED_INPUT), {}, {}, <<>>)), FALSE)

\* a normaliser that looks for a local file before it looks for a URL
preprocessInputFileBeforeURL(in, customFilename, exists) ==
    IF in.t = "string"
    THEN IF exists
         THEN Returns(createReadStream(in.s), OrName(customFilename, basename(in.s)), TRUE)
         ELSE IF StartsWith(in.s, HTTP) \/ StartsWith(in.s, HTTPS)
         THEN Awaits
         ELSE IF StartsWith(in.s, DATA_IMAGE) /\ DataUriMatches(in.s)
         THEN Returns(BufferOf(Base64Decode(DataUriPayload(in.s))),
                      OrName(customFilename, IMAGE_PNG), TRUE)
         ELSE Throws(fromError(ImgfansError(Str(MSG_INVALID_INPUT), {}, {}, <<>>)), TRUE)
    ELSE IF in.t \in {"buffer", "blob", "stream"}
         THEN Returns(in, OrName(customFilename, IMAGE_PNG), FALSE)
         ELSE Throws(fromError(ImgfansError(Str(MSG_UNSUPPORTED_INPUT), {}, {}, <<>>)), FALSE)

\* preprocessInput up to its first suspension; exists is what existsSync
\* answers for the input
preprocessInput(in, customFilename, exists) ==
    IF in.t = "string"
    THEN IF StartsWith(in.s, HTTP) \/ StartsWith(in.s, HTTPS)
         THEN Awaits
         ELSE IF StartsWith(in.s, DATA_IMAGE) /\ DataUriMatches(in.s)
         THEN Returns(BufferOf(Base64Decode(DataUriPayload(in.s))),
                      OrName(customFilename, IMAGE_PNG), FALSE)
         ELSE IF exists
         THEN Returns(createReadStream(in.s), OrName(customFilename, basename(in.s)), TRUE)
         ELSE Throws(fromError(ImgfansError(Str(MSG_INVALID_INPUT), {}, {}, <<>>)), TRUE)
    ELSE IF in.t \in {"buffer", "blob", "stream"}
         THEN Returns(in, OrName(customFilename, IMAGE_PNG), FALSE)
         ELSE Throws(fromError(ImgfansError(Str(MSG_UNSUPPORTED_INPUT), {}, {}, <<>>)), FALSE)

\* a normaliser that names a fetched file after the whole URL, query included
preprocessFetchedWholeURL(in, customFilename, body) ==
    Returns(BufferOf(body), OrName(customFilename, basename(in.s)), FALSE)

\* preprocessInput after axios.get(input) resolved with body
preprocessFetched(in, customFilename, body) ==
    Returns(BufferOf(body), OrName(customFilename, basename(URLpathname(in.s))), FALSE)

\* preprocessInput after axios.get(input) rejected with error
preprocessFetchFailed(error) == Throws(fromError(error), FALSE)

(***************************************************************************)
(* Responses and the accessors.  A response is what a 2xx reply carries    *)
(* as its body, or what a caller hands to an accessor: undefined, null, a  *)
(* string, or an object with optional success and optional file; a file    *)
(* has optional references; references map wire keys to {label, code}.     *)
(***************************************************************************)
WireKeys == {"direct_link", "download_link", "bbcode", "html", "markdown"}

ObjectResponse(success, file) == [t |-> "object", success |-> success, file |-> file]
NonObject(t) == [t |-> t, success |-> {}, file |-> {}]

\* response?.file?.references
References(response) ==
    IF response.t # "object" \/ response.file = {} THEN {}
    ELSE (CHOOSE f \in response.file : TRUE).references

\* refs.<key>.code, or undefined when refs has no such key
CodeOf(refs, key) == IF key \in DOMAIN refs THEN {refs[key].code} ELSE {}

Returned(str, map) == [threw |-> FALSE, error |-> <<>>, str |-> str, map |-> map]
Thrown(error) == [threw |-> TRUE, error |-> error, str |-> "", map |-> [k \in {} |-> ""]]

\* reading .code of a reference that is undefined
TypeError ==
    <<[name |-> "TypeError", message |-> "Cannot read properties of undefined (reading 'code')",
       statusCode |-> {}, response |-> {}, code |-> ""]>>

\* a validation that looks at response?.file only
validateResponseFileOnly(response) ==
    IF response.t # "object" \/ response.file = {}
    THEN ImgfansError(Str(MSG_INVALID_RESPONSE), {}, {}, <<>>)
    ELSE <<>>

\* validateResponse: the error it throws, or <<>> when it returns
validateResponse(response) ==
    IF References(response) = {}
    THEN ImgfansError(Str(MSG_INVALID_RESPONSE), {}, {}, <<>>)
    ELSE <<>>

\* an accessor reading the code of one wire key
ReadCode(response, key) ==
    IF validateResponse(response) # <<>> THEN Thrown(validateResponse(response))
    ELSE IF References(response) = {} THEN Thrown(TypeError)
    ELSE LET refs == CHOOSE r \in References(response) : TRUE
         IN  IF CodeOf(refs, key) = {} THEN Thrown(TypeError)
             ELSE Returned(CHOOSE c \in CodeOf(refs, key) : TRUE, [k \in {} |-> ""])

getDirectLink(response) == ReadCode(response, "direct_link")
getMarkdownCode(response) == ReadCode(response, "markdown")
getHtmlCode(response) == ReadCode(response, "html")

\* an accessor that swaps the html and markdown codes
getAllReferencesSwapped(response) ==
    IF validateResponse(response) # <<>> THEN Thrown(validateResponse(response))
    ELSE IF References(response) = {} THEN Thrown(TypeError)
    ELSE LET refs == CHOOSE r \in References(response) : TRUE
         IN  IF ~(WireKeys \subseteq DOMAIN refs) THEN Thrown(TypeError)
             ELSE Returned("", [k \in {"directLink", "downloadLink", "bbcode", "html", "markdown"} |->
                                  CASE k = "directLink" -> refs["direct_link"].code
                                    [] k = "downloadLink" -> refs["download_link"].code
                                    [] k = "bbcode" -> refs["bbcode"].code
                                    [] k = "html" -> refs["markdown"].code
                                    [] k = "markdown" -> refs["html"].code])

getAllReferences(response) ==
    IF validateResponse(response) # <<>> THEN Thrown(validateResponse(response))
    ELSE IF References(response) = {} THEN Thrown(TypeError)
    ELSE LET refs == CHOOSE r \in References(response) : TRUE
         IN  IF ~(WireKeys \subseteq DOMAIN refs) THEN Thrown(TypeError)
             ELSE Returned("", [k \in {"directLink", "downloadLink", "bbcode", "html", "markdown"} |->
                                  CASE k = "directLink" -> refs["direct_link"].code
                                    [] k = "downloadLink" -> refs["download_link"].code
                                    [] k = "bbcode" -> refs["bbcode"].code
                                    [] k = "html" -> refs["html"].code
                                    [] k = "markdown" -> refs["markdown"].code])

\* the response object after an accessor ran on it: no accessor assigns to it
ResponseAfter(name, response) == response

NoCall == [name |-> "", response |-> NonObject("undefined"), after |-> NonObject("undefined")]

Accessors == {"getDirectLink", "getMarkdownCode", "getHtmlCode", "getAllReferences"}

CallAccessor(name, response) ==
    CASE name = "getDirectLink" -> getDirectLink(response)
      [] name = "getMarkdownCode" -> getMarkdownCode(response)
      [] name = "getHtmlCode" -> getHtmlCode(response)
      [] name = "getAllReferences" -> getAllReferences(response)

(***************************************************************************)
(* The constructor.                                                        *)
(***************************************************************************)
DEFAULT_BASE_URL == "https://imgfans.com/api/v1"

NoClient == [state |-> "none", config |-> [token |-> Undefined, baseURL |-> Undefined],
             created |-> FALSE, baseURL |-> "", authorization |-> "", error |-> <<>>]

\* a constructor that rejects a missing token only, not an empty one
constructorMissingOnly(config) ==
    IF config.token = Undefined
    THEN [state |-> "failed", config |-> config, created |-> FALSE, baseURL |-> "",
          authorization |-> "",
          error |-> ImgfansError(Str(MSG_TOKEN_REQUIRED), {}, {}, <<>>)]
    ELSE [state |-> "ready", config |-> config, created |-> TRUE,
          baseURL |-> Or(config.baseURL, Str(DEFAULT_BASE_URL)).s,
          authorization |-> "Bearer " \o config.token.s,
          error |-> <<>>]

\* new ImgfansClient(config): the instance, or the error thrown
\* (created: axios.create has been called)
constructor(config) ==
    IF ~Truthy(config.token)
    THEN [state |-> "failed", config |-> config, created |-> FALSE, baseURL |-> "",
          authorization |-> "",
          error |-> ImgfansError(Str(MSG_TOKEN_REQUIRED), {}, {}, <<>>)]
    ELSE [state |-> "ready", config |-> config, created |-> TRUE,
          baseURL |-> Or(config.baseURL, Str(DEFAULT_BASE_URL)).s,
          authorization |-> "Bearer " \o config.token.s,
          error |-> <<>>]

(***************************************************************************)
(* upload and the transport.                                               *)
(***************************************************************************)
UPLOAD_PATH == <<"/","u","p","l","o","a","d">>

Get(url) == [method |-> "GET", url |-> url, authorization |-> ""]
Post(c) == [method |-> "POST", url |-> UPLOAD_PATH, authorization |-> c.authorization]

\* formData.append('file', file, filename)
FilePart(file, name) == [field |-> "file", file |-> file, filename |-> name]

Pending == [state |-> "pending", value |-> NonObject("undefined"), error |-> <<>>]
Resolved(value) == [state |-> "resolved", value |-> value, error |-> <<>>]
Rejected(error) == [state |-> "rejected", value |-> NonObject("undefined"), error |-> error]

\* the rejection handler of the response interceptor
interceptor(error) == fromError(error)

\* the catch clause of performUpload
performUploadCatch(error) == fromError(error)

\* the catch clause of upload
uploadCatch(error) == fromError(error)

\* what upload does with the result of preprocessInput: performUpload
\* appends the file and issues the POST, or the error goes to upload's catch
Proceed(r) ==
    IF r.state = "return"
    THEN /\ form' = {FilePart(r.processedFile, r.detectedFilename)}
         /\ requests' = Append(requests, Post(client))
         /\ outcome' = Pending
         /\ pc' = "posting"
    ELSE /\ form' = {}
         /\ requests' = requests
         /\ outcome' = Rejected(uploadCatch(r.error))
         /\ pc' = "settled"

(***************************************************************************)
(* The values the environment and the caller supply.                       *)
(***************************************************************************)
BoundedSeqs(S, n) == UNION {[1..k -> S] : k \in 1..n}

PNG == <<"p","n","g">>
TEXT_X == <<"t","e","x","t","/","x">>
QUJD == <<"Q","U","J","D">>
HOST_PATH == <<"h","/","a",".","p","n","g">>
QUERY == <<"?","q">>
NEWLINE == <<"\n">>
CUSTOM_NAME == <<"c",".","j","p","g">>

\* segments that string inputs are concatenated from
Vocabulary ==
    {HTTP, HTTPS, DATA_IMAGE \o PNG, DATA \o TEXT_X, BASE64_MARK, QUJD, HOST_PATH,
     QUERY, NEWLINE}

Strings == {Flatten(parts) : parts \in BoundedSeqs(Vocabulary, MaxParts)}

NonStrings == {BufferOf(<<65, 66>>), BlobOf(<<65, 66>>), ReadableOf(<<65, 66>>), NumberInput}

\* the inputs of the normaliser's specification
NormInputs == {StringInput(x) : x \in Strings} \cup NonStrings

\* the inputs of the client's specification: one of each shape
FewInputs ==
    {StringInput(HTTP \o HOST_PATH),
     StringInput(DATA_IMAGE \o PNG \o BASE64_MARK \o QUJD),
     StringInput(HOST_PATH)} \cup NonStrings

\* the filename argument: omitted, empty, or a name
Filenames == {{}, {<<>>}, {CUSTOM_NAME}}

\* characters of a host name
HostChars == (Chars(B64Alphabet) \ {"+", "/"}) \cup {".", "-"}

\* URLs that the HTTP library can parse and request
ValidURL(url) ==
    /\ URLHost(url) # <<>>
    /\ Chars(URLHost(url)) \subseteq HostChars
    /\ Chars(url) \cap LineTerminators = {}

FetchBodies == {<<>>, <<137, 80>>}

\* an error of the HTTP library
AxiosError(status, data, code, message) ==
    <<[name |-> "AxiosError", message |-> message, statusCode |-> status,
       response |-> data, code |-> code]>>

JsonBody(message) == [t |-> "object", message |-> message]
TextBody == [t |-> "string", message |-> Undefined]

Payloads ==
    {TextBody} \cup
    {JsonBody(m) : m \in {Undefined, Str(""), Str("quota exceeded"), EmptyArray}}

\* failures of a request: a reply with a status that is no 2xx, with or
\* without a body, or no reply at all
Failures ==
    {AxiosError({st}, d, c, m) :
        st \in {401, 413, 415, 500},
        d \in {{}} \cup {{x} : x \in Payloads},
        c \in {"ECONNREFUSED", "ERR_BAD_RESPONSE"},
        m \in {"", "Request failed"}}
    \cup
    {AxiosError({}, {}, c, m) :
        c \in {"ECONNREFUSED", "ETIMEDOUT"}, m \in {"", "connect failed"}}

FewFailures == {AxiosError({500}, {JsonBody(Str("quota exceeded"))}, "ERR_BAD_RESPONSE",
                           "Request failed")}

Codes == {"u1", "u2"}
WellFormedReferences == [WireKeys -> [label : {"L"}, code : Codes]]
PartialReferences ==
    {[k \in {} |-> [label |-> "L", code |-> "u1"]],
     [k \in WireKeys \ {"direct_link"} |-> [label |-> "L", code |-> "u1"]],
     [k \in WireKeys \ {"bbcode"} |-> [label |-> "L", code |-> "u1"]]}

Files ==
    {[references |-> {}]} \cup
    {[references |-> {r}] : r \in WellFormedReferences \cup PartialReferences}

\* what a 2xx reply may carry, and what an accessor may be handed
Responses ==
    {NonObject("undefined"), NonObject("null"), NonObject("string")} \cup
    {ObjectResponse(sc, f) :
        sc \in {{}, {TRUE}, {FALSE}}, f \in {{}} \cup {{x} : x \in Files}}

FewResponses ==
    {ObjectResponse({TRUE}, {[references |-> {[k \in WireKeys |-> [label |-> "L", code |-> "u1"]]}]})}

Configs ==
    [token : {Undefined, Str(""), Str("test-token")},
     baseURL : {Undefined, Str("https://example.test/api")}]

FewConfigs == [token : {Undefined, Str("test-token")}, baseURL : {Undefined}]

CodecChars == {"Q", "U", "J", "D", "=", "-", " "}

(***************************************************************************)
(* The state machine.                                                      *)
(***************************************************************************)
InitClient ==
    /\ client = NoClient
    /\ requests = <<>>
    /\ pc = "idle"
    /\ input = NoValue
    /\ filename = {}
    /\ fileExists = FALSE
    /\ fsChecked = FALSE
    /\ failure = <<>>
    /\ form = {}
    /\ outcome = Pending
    /\ accessor = NoCall
    /\ accResult = Returned("", [k \in {} |-> ""])

Init ==
    /\ InitClient
    /\ payload = <<>>
    /\ bytes = {}
    /\ encoded = {}

\* new ImgfansClient(config)
Construct(configs) ==
    /\ pc = "idle"
    /\ \E config \in configs : client' = constructor(config)
    /\ UNCHANGED <<requests, pc, input, filename, fileExists, fsChecked, failure, form,
                   outcome, accessor, accResult, payload, bytes, encoded>>

\* client.upload(in, name), up to its first request or its rejection
UploadCall(inputs) ==
    /\ pc = "idle"
    /\ client.state = "ready"
    /\ \E in \in inputs, name \in Filenames, found \in BOOLEAN :
          LET r == preprocessInput(in, name, found)
          IN  /\ input' = in
              /\ filename' = name
              /\ fileExists' = found
              /\ fsChecked' = r.fsChecked
              /\ IF r.state = "await"
                 THEN /\ requests' = Append(requests, Get(in.s))
                      /\ form' = {}
                      /\ outcome' = Pending
                      /\ pc' = "fetching"
                 ELSE Proceed(r)
    /\ UNCHANGED <<client, failure, accessor, accResult, payload, bytes, encoded>>

\* axios.get(input) resolves
FetchResolve ==
    /\ pc = "fetching"
    /\ ValidURL(input.s)
    /\ \E body \in FetchBodies : Proceed(preprocessFetched(input, filename, body))
    /\ UNCHANGED <<client, input, filename, fileExists, fsChecked, failure, accessor,
                   accResult, payload, bytes, encoded>>

\* axios.get(input) rejects
FetchReject(errors) ==
    /\ pc = "fetching"
    /\ \E error \in errors :
          /\ failure' = error
          /\ Proceed(preprocessFetchFailed(error))
    /\ UNCHANGED <<client, input, filename, fileExists, fsChecked, accessor, accResult,
                   payload, bytes, encoded>>

\* the POST to /upload gets a 2xx reply
PostResolve(bodies) ==
    /\ pc = "posting"
    /\ \E body \in bodies : outcome' = Resolved(body)
    /\ pc' = "settled"
    /\ UNCHANGED <<client, requests, input, filename, fileExists, fsChecked, failure, form,
                   accessor, accResult, payload, bytes, encoded>>

\* the POST to /upload fails
PostReject(errors) ==
    /\ pc = "posting"
    /\ \E error \in errors :
          /\ failure' = error
          /\ outcome' = Rejected(uploadCatch(performUploadCatch(interceptor(error))))
    /\ pc' = "settled"
    /\ UNCHANGED <<client, requests, input, filename, fileExists, fsChecked, form, accessor,
                   accResult, payload, bytes, encoded>>

\* the caller is done with the settled call, or with the accessor's result
Return ==
    /\ pc \in {"settled", "accessed"}
    /\ pc' = "idle"
    /\ requests' = <<>>
    /\ input' = NoValue
    /\ filename' = {}
    /\ fileExists' = FALSE
    /\ fsChecked' = FALSE
    /\ failure' = <<>>
    /\ form' = {}
    /\ outcome' = Pending
    /\ accessor' = NoCall
    /\ accResult' = Returned("", [k \in {} |-> ""])
    /\ UNCHANGED <<client, payload, bytes, encoded>>

\* client.getDirectLink(response) and the other accessors
Accessor ==
    /\ pc = "idle"
    /\ client.state = "ready"
    /\ \E name \in Accessors, response \in Responses :
          /\ accessor' = [name |-> name, response |-> response,
                           after |-> ResponseAfter(name, response)]
          /\ accResult' = CallAccessor(name, response)
    /\ pc' = "accessed"
    /\ UNCHANGED <<client, requests, input, filename, fileExists, fsChecked, failure, form,
                   outcome, payload, bytes, encoded>>

Next ==
    \/ Construct(Configs)
    \/ UploadCall(FewInputs)
    \/ FetchResolve
    \/ FetchReject(Failures)
    \/ PostResolve(Responses)
    \/ PostReject(Failures)
    \/ Return
    \/ Accessor

Spec == Init /\ [][Next]_vars

\* the normaliser over every string of the vocabulary
NextNorm ==
    \/ Construct(FewConfigs)
    \/ UploadCall(NormInputs)
    \/ FetchResolve
    \/ FetchReject(FewFailures)
    \/ PostResolve(FewResponses)
    \/ PostReject(FewFailures)
    \/ Return

SpecNorm == Init /\ [][NextNorm]_vars

\* a data URI of the payload
DataUri(p) == DATA_IMAGE \o PNG \o BASE64_MARK \o p

InitCodec ==
    /\ InitClient
    /\ payload \in BoundedSeqs(CodecChars, MaxPayloadLen)
    /\ bytes = {}
    /\ encoded = {}

\* the normaliser decodes the payload of the data URI
Decode ==
    /\ bytes = {}
    /\ LET r == preprocessInput(StringInput(DataUri(payload)), {}, FALSE)
       IN  /\ r.state = "return"
           /\ bytes' = {r.processedFile.bytes}
    /\ UNCHANGED <<clientVars, payload, encoded>>

\* buffer.toString('base64')
Encode ==
    /\ bytes # {}
    /\ encoded = {}
    /\ encoded' = {Base64Encode(CHOOSE b \in bytes : TRUE)}
    /\ UNCHANGED <<clientVars, payload, bytes>>

NextCodec == Decode \/ Encode

SpecCodec == InitCodec /\ [][NextCodec]_vars

(***************************************************************************)
(* Properties.                                                             *)
(***************************************************************************)
\* the pending call was rejected after the POST to /upload failed with a status
PostFailed ==
    /\ pc = "settled"
    /\ outcome.state = "rejected"
    /\ form # {}
    /\ failure # <<>>
    /\ Head(failure).statusCode # {}

\* C1: when upload rejects because the POST to /upload got a non-2xx reply,
\* the error the caller receives carries the reply's status code in
\* statusCode, the reply's payload in response, and a cause.
C1_StatusAndPayloadPreserved ==
    PostFailed =>
        /\ Head(outcome.error).statusCode = Head(failure).statusCode
        /\ Head(outcome.error).response = Head(failure).response
        /\ Len(outcome.error) > 1

\* C2: constructing with a token that is missing or empty throws the
\* configuration error before the HTTP client is created and with no request
\* made; constructing with a non-empty token does not throw.
C2_TokenRequired ==
    client.state # "none" =>
        IF client.config.token \in {Undefined, Str("")}
        THEN /\ client.state = "failed"
             /\ Len(client.error) = 1
             /\ Head(client.error).name = "ImgfansError"
             /\ Head(client.error).message = MSG_TOKEN_REQUIRED
             /\ ~client.created
             /\ requests = <<>>
        ELSE /\ client.state = "ready"
             /\ client.created
             /\ client.error = <<>>

C2_Witness == client.state = "failed" /\ client.config.token = Str("")

\* the message the claim C4 gives for a failure, in its priority order
ClaimedMessage(error) ==
    CASE Head(error).statusCode = {413} -> MSG_TOO_LARGE
      [] Head(error).statusCode = {415} -> MSG_UNSUPPORTED_TYPE
      [] Head(error).statusCode = {401} -> MSG_BAD_TOKEN
      [] OTHER ->
            IF Head(error).code = "ECONNREFUSED" THEN MSG_NO_CONNECTION
            ELSE IF Truthy(DataMessage(error)) THEN DataMessage(error).s
            ELSE IF Head(error).message # "" THEN Head(error).message
            ELSE MSG_UNKNOWN

\* C4: the message the caller of upload sees for a transport failure is the
\* one the priority order gives: 413, 415, 401, ECONNREFUSED, the server's
\* message, the underlying error's message, the generic message.
C4_MappedMessageSeen ==
    (pc = "settled" /\ outcome.state = "rejected" /\ form # {} /\ failure # <<>>) =>
        Head(outcome.error).message = ClaimedMessage(failure)

\* a record with success and a file carrying references
ValidUploadResult(r) ==
    /\ r.t = "object"
    /\ r.success # {}
    /\ \E f \in r.file : f.references # {}

\* C5: every upload call either resolves with a valid UploadResult or
\* rejects with an ImgfansError.
C5_AllOrNothing ==
    pc = "settled" =>
        \/ outcome.state = "resolved" /\ ValidUploadResult(outcome.value)
        \/ /\ outcome.state = "rejected"
           /\ outcome.error # <<>>
           /\ Head(outcome.error).name = "ImgfansError"

\* the response has no file.references: it is null or undefined (or no
\* object at all), or its file is absent, or the file's references are
LacksReferences(r) ==
    \/ r.t # "object"
    \/ r.file = {}
    \/ \A f \in r.file : f.references = {}

\* C8: an accessor invoked on a response that lacks file.references throws
\* the ImgfansError 'Invalid response format from server'; it throws no
\* other error and returns no value.
C8_InvalidResponseShape ==
    (pc = "accessed" /\ LacksReferences(accessor.response)) =>
        /\ accResult.threw
        /\ Len(accResult.error) = 1
        /\ Head(accResult.error).name = "ImgfansError"
        /\ Head(accResult.error).message = MSG_INVALID_RESPONSE

C8_Witness ==
    /\ pc = "accessed"
    /\ accessor.name = "getAllReferences"
    /\ accessor.response.t = "object"
    /\ accessor.response.file = {[references |-> {}]}
    /\ accResult.threw

\* the response is well-formed: an object whose file has references with
\* exactly the five wire keys
WellFormed(r) ==
    /\ r.t = "object"
    /\ \E f \in r.file : \E refs \in f.references : DOMAIN refs = WireKeys

\* the code of a wire key of a well-formed response
WireCode(r, key) ==
    LET f == CHOOSE x \in r.file : TRUE
        refs == CHOOSE x \in f.references : TRUE
    IN  refs[key].code

\* C9: on a well-formed response getAllReferences returns exactly the keys
\* directLink, downloadLink, bbcode, html, markdown with the codes of
\* direct_link, download_link, bbcode, html, markdown; getDirectLink,
\* getMarkdownCode and getHtmlCode return the directLink, markdown and html
\* entries; the response is left as it was.
C9_ReferencesMapping ==
    (pc = "accessed" /\ WellFormed(accessor.response)) =>
        /\ ~accResult.threw
        /\ accessor.after = accessor.response
        /\ accessor.name = "getAllReferences" =>
              /\ DOMAIN accResult.map = {"directLink", "downloadLink", "bbcode", "html", "markdown"}
              /\ accResult.map["directLink"] = WireCode(accessor.response, "direct_link")
              /\ accResult.map["downloadLink"] = WireCode(accessor.response, "download_link")
              /\ accResult.map["bbcode"] = WireCode(accessor.response, "bbcode")
              /\ accResult.map["html"] = WireCode(accessor.response, "html")
              /\ accResult.map["markdown"] = WireCode(accessor.response, "markdown")
        /\ accessor.name = "getDirectLink" =>
              accResult.str = WireCode(accessor.response, "direct_link")
        /\ accessor.name = "getMarkdownCode" =>
              accResult.str = WireCode(accessor.response, "markdown")
        /\ accessor.name = "getHtmlCode" =>
              accResult.str = WireCode(accessor.response, "html")

C9_Witness ==
    /\ pc = "accessed"
    /\ accessor.name = "getAllReferences"
    /\ WellFormed(accessor.response)
    /\ WireCode(accessor.response, "html") # WireCode(accessor.response, "markdown")
    /\ accResult.map["html"] = "u1"
    /\ accResult.map["markdown"] = "u2"

(***************************************************************************)
(* Properties of the normaliser.                                           *)
(***************************************************************************)
\* s is data:<mime>;base64,<payload> with p its payload: mime and payload
\* are not empty and hold no line terminator
IsDataUriOf(s, p) ==
    LET k == Len(s) - Len(p) - Len(BASE64_MARK)
    IN  /\ p # <<>>
        /\ k > Len(DATA)
        /\ s = DATA \o SubSeq(s, Len(DATA) + 1, k) \o BASE64_MARK \o p
        /\ Chars(SubSeq(s, Len(DATA) + 1, k) \o p) \cap LineTerminators = {}

IsDataUri(s) == \E i \in 1..Len(s) : IsDataUriOf(s, From(s, i))

IsImageDataUri(s) == IsDataUri(s) /\ StartsWith(s, DATA_IMAGE)

\* the name given to the file: the filename argument unless it is omitted
\* or empty
NameOr(default) == IF filename \in {{}, {<<>>}} THEN default ELSE CHOOSE n \in filename : TRUE

\* the call took the base64 branch: it decoded the payload of the data URI,
\* named it, consulted neither the network nor the filesystem to do so,
\* and went on to the upload request
TookBase64Branch ==
    /\ ~fsChecked
    /\ requests # <<>>
    /\ Head(requests).method = "POST"
    /\ \E part \in form :
          /\ form = {part}
          /\ part.field = "file"
          /\ part.filename = NameOr(IMAGE_PNG)
          /\ part.file.t = "buffer"
          /\ \E i \in 1..Len(input.s) :
                /\ IsDataUriOf(input.s, From(input.s, i))
                /\ part.file.bytes = Base64Decode(From(input.s, i))

\* C3 as stated: every string input that matches data:<mime>;base64,<payload>,
\* whatever the mime type, takes the base64 branch.
C3_AnyMimeBase64 ==
    (pc # "idle" /\ input.t = "string" /\ IsDataUri(input.s)) => TookBase64Branch

\* C3: every string input that begins with data:image/ and matches
\* data:<mime>;base64,<payload> takes the base64 branch: the payload is
\* decoded to bytes, the name is the filename argument, or image.png when
\* that is omitted or empty, and neither the filesystem check nor
\* InvalidInput happens; upload("data:image/png;base64,QUJD") submits the
\* bytes A B C as image.png.
C3_ImageDataUriBase64 ==
    /\ (pc # "idle" /\ input.t = "string" /\ IsImageDataUri(input.s)) => TookBase64Branch
    /\ (pc # "idle" /\ input = StringInput(DataUri(QUJD)) /\ filename = {}) =>
          form = {FilePart(BufferOf(<<65, 66, 67>>), IMAGE_PNG)}

C3_Witness ==
    /\ pc = "posting"
    /\ input = StringInput(DataUri(QUJD))
    /\ filename = {}
    /\ fileExists
    /\ form = {FilePart(BufferOf(<<65, 66, 67>>), IMAGE_PNG)}

IsURL(s) == StartsWith(s, HTTP) \/ StartsWith(s, HTTPS)

RejectedWith(message) ==
    /\ pc = "settled"
    /\ outcome.state = "rejected"
    /\ Head(outcome.error).name = "ImgfansError"
    /\ Head(outcome.error).message = message

\* C6: classification is first-match-wins.  A string beginning with http://
\* or https:// is fetched and is never read as a path or as base64, also
\* when a file of that name exists or the fetch fails; a data URI is decoded
\* also when a file of that name exists; an existing file is streamed; any
\* other string is rejected as invalid input with no request sent; a buffer,
\* blob or stream is passed through; any other value is rejected as an
\* unsupported input type.
C6_FirstMatchWins ==
    pc # "idle" =>
        /\ (input.t = "string" /\ IsURL(input.s)) =>
              /\ Head(requests) = Get(input.s)
              /\ ~fsChecked
              /\ \A part \in form : part.file.t = "buffer" /\ part.file.bytes \in FetchBodies
              /\ (pc = "settled" /\ form = {}) =>
                    (outcome.state = "rejected" /\ failure # <<>> /\ requests = <<Get(input.s)>>)
              /\ ~RejectedWith(MSG_INVALID_INPUT)
        /\ (input.t = "string" /\ ~IsURL(input.s) /\ IsImageDataUri(input.s)) =>
              /\ ~fsChecked
              /\ \E part \in form : part.file.t = "buffer"
        /\ (input.t = "string" /\ ~IsURL(input.s) /\ ~IsImageDataUri(input.s) /\ fileExists) =>
              /\ fsChecked
              /\ \E part \in form : part.file = createReadStream(input.s)
        /\ (input.t = "string" /\ ~IsURL(input.s) /\ ~IsImageDataUri(input.s) /\ ~fileExists) =>
              /\ RejectedWith(MSG_INVALID_INPUT)
              /\ requests = <<>>
              /\ form = {}
        /\ input.t \in {"buffer", "blob", "stream"} =>
              /\ \E part \in form : part.file = input
              /\ Head(requests).method = "POST"
        /\ input.t \notin {"string", "buffer", "blob", "stream"} =>
              /\ RejectedWith(MSG_UNSUPPORTED_INPUT)
              /\ requests = <<>>
              /\ form = {}

C6_Witness ==
    /\ pc = "settled"
    /\ input = StringInput(HTTP \o HOST_PATH \o BASE64_MARK)
    /\ fileExists
    /\ failure # <<>>
    /\ requests = <<Get(input.s)>>
    /\ outcome.state = "rejected"

\* b is the base name of path: the last segment, trailing separators aside
IsBaseNameOf(b, path) ==
    /\ "/" \notin Chars(b)
    /\ b = <<>> => Chars(path) \subseteq {"/"}
    /\ \E i \in 0..Len(path), j \in 0..Len(path) :
          /\ i <= j
          /\ b = SubSeq(path, i + 1, j)
          /\ Chars(From(path, j + 1)) \subseteq {"/"}
          /\ i > 0 => path[i] = "/"

\* the path component of the http(s) URL: what lies between the host and
\* the query or fragment, "/" when that is empty
PathsOf(url) ==
    {IF a = b THEN <<"/">> ELSE SubSeq(url, a, b - 1) :
        <<a, b>> \in {ab \in (SchemeLen(url) + 1..Len(url) + 1) \X (SchemeLen(url) + 1..Len(url) + 1) :
            /\ ab[1] <= ab[2]
            /\ Chars(SubSeq(url, SchemeLen(url) + 1, ab[1] - 1)) \cap {"/", "?", "#"} = {}
            /\ ab[1] <= Len(url) => url[ab[1]] \in {"/", "?", "#"}
            /\ (ab[1] <= Len(url) /\ url[ab[1]] = "/") \/ ab[1] = ab[2]
            /\ Chars(SubSeq(url, ab[1], ab[2] - 1)) \cap {"?", "#"} = {}
            /\ ab[2] <= Len(url) => url[ab[2]] \in {"?", "#"}}}

\* C7: the filename of the multipart "file" field is the filename argument
\* when one is supplied (an empty string counts as none); otherwise it is
\* the base name of the URL's path component for a URL, the base name of
\* the path for an existing local file, and image.png for a base64 data
\* URI, a buffer, a blob or a stream.
C7_SubmittedFilename ==
    \A part \in form :
        /\ form = {part}
        /\ part.field = "file"
        /\ filename \notin {{}, {<<>>}} => part.filename \in filename
        /\ filename \in {{}, {<<>>}} =>
              IF input.t = "string" /\ IsURL(input.s)
              THEN \E path \in PathsOf(input.s) : IsBaseNameOf(part.filename, path)
              ELSE IF input.t = "string" /\ part.file.t = "stream"
              THEN IsBaseNameOf(part.filename, input.s)
              ELSE part.filename = IMAGE_PNG

C7_Witness ==
    /\ pc = "posting"
    /\ input = StringInput(HTTPS \o HOST_PATH \o QUERY)
    /\ filename = {}
    /\ \E part \in form : part.filename = <<"a",".","p","n","g">>

(***************************************************************************)
(* Properties of the base64 codec.                                         *)
(***************************************************************************)
\* the value of a digit of the standard alphabet
DigitValue(c) == (CHOOSE i \in 1..Len(B64Alphabet) : B64Alphabet[i] = c) - 1

\* p is canonical base64: digits of the standard alphabet only, a length
\* that is a multiple of four, "=" only as the last one or two characters,
\* and no bit set in the last digit that the padding discards
Canonical(p) ==
    LET n == Len(p)
        digits == Chars(B64Alphabet)
    IN  /\ n > 0
        /\ n % 4 = 0
        /\ Chars(SubSeq(p, 1, n - 2)) \subseteq digits
        /\ \/ p[n - 1] \in digits /\ p[n] \in digits
           \/ p[n - 1] \in digits /\ p[n] = "=" /\ DigitValue(p[n - 1]) % 4 = 0
           \/ p[n - 1] = "=" /\ p[n] = "=" /\ DigitValue(p[n - 2]) % 16 = 0

\* C10 as stated: decoding the payload of a data URI as the normaliser does
\* and encoding the bytes again gives the payload back, for every payload
\* the pattern accepts.
C10_RoundTrip == encoded # {} => encoded = {payload}

\* C10: decoding then encoding gives the payload back exactly when the
\* payload is canonical base64.
C10_RoundTripCanonical == encoded # {} => (encoded = {payload} <=> Canonical(payload))

C10_Witness == payload = <<"Q", "Q", "=", "=">> /\ bytes = {<<65>>} /\ encoded = {payload}

====
